---- MODULE Spec2Model ----
(***************************************************************************)
(* Call-hierarchy session controller (CallHierarchyController) of          *)
(* callHierarchy.contribution.ts: one controller per editor, owning the    *)
(* disposable store of the current session, two context keys and the       *)
(* stored default direction.                                               *)
(***************************************************************************)
EXTENDS Integers, Sequences, FiniteSets, TLC

\* Number of startCallHierarchy invocations that create a session.
MaxSessions == 2

\* CallHierarchyDirection enumerants (callHierarchy.ts, imported at line 7).
CallsTo == 1
CallsFrom == 2
Directions == {CallsTo, CallsFrom}

\* The editor's bound text model: none, or a document of some language.
NoModel == "null"
Languages == {"ts", "txt"}
EditorModels == {NoModel} \cup Languages

\* Provider registrations: the languages a provider is registered for.
Registries == {{}, {"ts"}}

\* Outcomes of CallHierarchyModel.create(document, position, token).
Outcomes == {"model", "absent", "reject"}

MsgNoResults == "No results"
MsgFailed == "Failed to show call hierarchy"

StorageUndefined == "undefined"

VARIABLES
    editorModel,        \* _editor.getModel()
    registry,           \* CallHierarchyProviderRegistry
    ctxHasProvider,     \* context key editorHasCallHierarchyProvider
    ctxIsVisible,       \* context key callHierarchyVisible
    storage,            \* value stored under callHierarchy/defaultDirection
    sessions,           \* one record per session created by startCallHierarchy
    items,              \* _sessionDisposables, in insertion order
    disposed,           \* the controller was disposed
    lastOp,             \* the handler that ran last
    ops,                \* the effects of that handler, in program order
    stablePeek,         \* configuration value config.editor.stablePeek
    inPeekEditor,       \* the editor is embedded in a peek view
    preview             \* image preview: the resolveWebviewEditor requests

vars == <<editorModel, registry, ctxHasProvider, ctxIsVisible, storage,
          sessions, items, disposed, lastOp, ops, stablePeek, inPeekEditor,
          preview>>

\* What the controller's handlers never touch.
outside == <<stablePeek, inPeekEditor, preview>>

(***************************************************************************)
(* Collaborators.                                                          *)
(***************************************************************************)

\* _editor.hasModel()
HasModel(m) == m # NoModel

\* CallHierarchyProviderRegistry.has(document)
RegistryHas(reg, m) == m \in reg

\* IStorageService.store(key, value, GLOBAL): the number is kept as text.
NumberToString(n) == IF n = 1 THEN "1" ELSE IF n = 2 THEN "2" ELSE "NaN"

\* IStorageService.getNumber(key, GLOBAL, fallback): parseInt of the text.
GetNumber(stored, fallback) ==
    IF stored = StorageUndefined THEN fallback
    ELSE IF stored = "1" THEN 1
    ELSE IF stored = "2" THEN 2
    ELSE fallback

Other(dir) == IF dir = CallsTo THEN CallsFrom ELSE CallsTo

\* The state of a session right after lines 77-94.
NewSession(dir) ==
    [ widgetDisposed |-> FALSE,
      state          |-> "loading",
      message        |-> "",
      direction      |-> dir,
      calls          |-> <<"showLoading">>,
      cancelled      |-> FALSE,
      endedBy        |-> "none",
      pending        |-> TRUE,
      outcome        |-> "none",
      lateResult     |-> FALSE,
      model          |-> "none",
      promise        |-> "pending" ]

Item(k, s) == [kind |-> k, s |-> s]

\* A session is live while its widget is not disposed and its token is not cancelled.
Live(s) == ~sessions[s].widgetDisposed /\ ~sessions[s].cancelled
LiveSessions == {s \in 1..Len(sessions) : Live(s)}

(***************************************************************************)
(* DisposableStore.clear(): dispose every item in insertion order.         *)
(***************************************************************************)

\* Disposing one item of the session store; `by` records who cleared it:
\* "close" (endCallHierarchy), "start" (line 62) or "dispose" (line 58).
DisposeItemKeepsModel(ss, it, by) ==
    IF it.kind = "cts" THEN
        [ss EXCEPT ![it.s].cancelled = TRUE,
                   ![it.s].endedBy = IF ss[it.s].cancelled THEN @ ELSE by]
    ELSE IF it.kind = "widget" THEN [ss EXCEPT ![it.s].widgetDisposed = TRUE]
    ELSE ss

DisposeItem(ss, it, by) ==
    IF it.kind = "cts" THEN
        [ss EXCEPT ![it.s].cancelled = TRUE,
                   ![it.s].endedBy = IF ss[it.s].cancelled THEN @ ELSE by]
    ELSE IF it.kind = "widget" THEN [ss EXCEPT ![it.s].widgetDisposed = TRUE]
    ELSE IF it.kind = "model" THEN [ss EXCEPT ![it.s].model = "disposed"]
    ELSE ss

ItemOp(it) ==
    IF it.kind = "cts" THEN "cancel"
    ELSE IF it.kind = "widget" THEN "disposeWidget"
    ELSE IF it.kind = "model" THEN "disposeModel"
    ELSE "removeListener"

\* PeekViewWidget.dispose fires onDidClose: it reaches the session's close
\* listener only if that listener has not been disposed earlier in the pass.
FiresClose(its, i) ==
    /\ its[i].kind = "widget"
    /\ \E j \in (i+1)..Len(its) : its[j] = Item("closeListener", its[i].s)

RECURSIVE ClearFrom(_, _, _, _)
ClearFrom(ss, its, i, by) ==
    IF i > Len(its) THEN [ss |-> ss, ops |-> <<>>, fired |-> {}]
    ELSE LET rest == ClearFrom(DisposeItem(ss, its[i], by), its, i + 1, by)
         IN [ss    |-> rest.ss,
             ops   |-> <<ItemOp(its[i])>> \o rest.ops,
             fired |-> (IF FiresClose(its, i) THEN {its[i].s} ELSE {}) \cup rest.fired]

Clear(ss, its, by) == ClearFrom(ss, its, 1, by)

\* The onDidClose listener of lines 89-92 run for the sessions in `fired`
\* (the part after its nested endCallHierarchy): the direction is stored.
StoredAfter(st, ss, fired) ==
    IF fired = {} THEN st
    ELSE NumberToString(ss[CHOOSE s \in fired : TRUE].direction)

(***************************************************************************)
(* Initial state: the controller right after its constructor (41-53).      *)
(* Both context keys start at their default, false; no session exists.     *)
(***************************************************************************)
InitController ==
    /\ editorModel \in EditorModels
    /\ registry \in Registries
    /\ ctxHasProvider = FALSE
    /\ ctxIsVisible = FALSE
    /\ storage \in {StorageUndefined, NumberToString(CallsTo), NumberToString(CallsFrom)}
    /\ sessions = <<>>
    /\ items = <<>>
    /\ disposed = FALSE
    /\ lastOp = "init"
    /\ ops = <<>>

\* The default configuration, in which both commands are available:
\* editor.stablePeek is off and the editor is not embedded in a peek view.
Init ==
    /\ InitController
    /\ stablePeek = FALSE
    /\ inPeekEditor = FALSE
    /\ preview = <<>>

\* What the close listener does when a widget's dispose reaches it.
FiredOps(fired) ==
    IF fired = {} THEN <<>> ELSE <<"setVisible:false", "focus", "store">>

(***************************************************************************)
(* startCallHierarchy (61-95), up to the await of line 97.                 *)
(***************************************************************************)

\* Line 62: this._sessionDisposables.clear()
StartClearSkipped(ss, its) == [ss |-> ss, ops |-> <<>>, fired |-> {}]

StartClear(ss, its) == Clear(ss, its, "start")

\* Lines 64-72: the two early returns.
StartPreconditionsNoRegistry(m, reg) == HasModel(m)

StartPreconditions(m, reg) == HasModel(m) /\ RegistryHas(reg, m)

\* Line 74: the direction the new widget is created with.
StartDirection(st) == GetNumber(st, CallsFrom)

\* Lines 76, 89-94: what the session store holds once the session is set up.
SessionItems(n) ==
    << Item("docListener", n), Item("closeListener", n),
       Item("cts", n), Item("widget", n) >>

StartBody(op) ==
    LET c   == StartClear(sessions, items)
        ok  == StartPreconditions(editorModel, registry)
        st  == StoredAfter(storage, c.ss, c.fired)
        n   == Len(sessions) + 1
    IN  /\ ~disposed
        /\ ok => Len(sessions) < MaxSessions
        /\ lastOp' = op
        /\ storage' = st
        /\ IF ok
           THEN /\ sessions' = Append(c.ss, NewSession(StartDirection(st)))
                /\ items' = SessionItems(n)
                /\ ctxIsVisible' = TRUE
                /\ ops' = c.ops \o FiredOps(c.fired) \o
                          <<"getNumber", "createWidget", "showLoading",
                            "setVisible:true", "create">>
           ELSE /\ sessions' = c.ss
                /\ items' = <<>>
                /\ ctxIsVisible' = (ctxIsVisible /\ c.fired = {})
                /\ ops' = c.ops \o FiredOps(c.fired)
        /\ UNCHANGED <<editorModel, registry, ctxHasProvider, disposed>>
        /\ UNCHANGED outside

\* A direct call of the controller's method.
StartCallHierarchy == StartBody("startCallHierarchy")

\* Lines 137-140: the precondition of editor.showCallHierarchy.
ShowPreconditionAlways == TRUE

ShowPrecondition == ctxHasProvider /\ ~inPeekEditor

\* editor.showCallHierarchy (121-147): runs only under its precondition.
ShowCallHierarchyCommand ==
    /\ ShowPrecondition
    /\ StartBody("showCommand")

(***************************************************************************)
(* endCallHierarchy (112-116).                                             *)
(***************************************************************************)
EndBodyKeepsVisible ==
    LET c == Clear(sessions, items, "close")
    IN  /\ sessions' = c.ss
        /\ items' = <<>>
        /\ ctxIsVisible' = ctxIsVisible
        /\ ops' = c.ops \o FiredOps(c.fired) \o <<"focus">>
        /\ storage' = StoredAfter(storage, c.ss, c.fired)

EndBody ==
    LET c == Clear(sessions, items, "close")
    IN  /\ sessions' = c.ss
        /\ items' = <<>>
        /\ ctxIsVisible' = FALSE
        /\ ops' = c.ops \o FiredOps(c.fired) \o <<"setVisible:false", "focus">>
        /\ storage' = StoredAfter(storage, c.ss, c.fired)

\* A direct call of the controller's method, in any state.
EndCallHierarchy ==
    /\ ~disposed
    /\ lastOp' = "endCallHierarchy"
    /\ EndBody
    /\ UNCHANGED <<editorModel, registry, ctxHasProvider, disposed>>
    /\ UNCHANGED outside

\* Lines 159-162: the precondition of editor.closeCallHierarchy.
ClosePreconditionNoStablePeek == ctxIsVisible

ClosePrecondition == ctxIsVisible /\ ~stablePeek

\* editor.closeCallHierarchy (150-169): runs only under its precondition.
CloseCommand ==
    /\ ~disposed
    /\ ClosePrecondition
    /\ lastOp' = "closeCommand"
    /\ EndBody
    /\ UNCHANGED <<editorModel, registry, ctxHasProvider, disposed>>
    /\ UNCHANGED outside

(***************************************************************************)
(* Editor and registry events.  The constructor's listener (49-51) runs     *)
(* first, the session's listener (76) second, when it is registered.        *)
(***************************************************************************)
HasProviderValueModelOnly(m, reg) == HasModel(m)

HasProviderValue(m, reg) == HasModel(m) /\ RegistryHas(reg, m)

SessionListensAlways == TRUE

\* Line 76: the listener that ends the session is an item of the session store.
SessionListens == \E i \in 1..Len(items) : items[i].kind = "docListener"

EditorEvent(op, m) ==
    /\ ~disposed
    /\ editorModel' = m
    /\ ctxHasProvider' = HasProviderValue(m, registry)
    /\ lastOp' = op
    /\ IF SessionListens
       THEN EndBody
       ELSE /\ ops' = <<>>
            /\ UNCHANGED <<sessions, items, ctxIsVisible, storage>>
    /\ UNCHANGED <<registry, disposed>>
    /\ UNCHANGED outside

\* _editor.onDidChangeModel
ChangeModel ==
    \E m \in EditorModels \ {editorModel} : EditorEvent("changeModel", m)

\* _editor.onDidChangeModelLanguage
ChangeModelLanguage ==
    /\ HasModel(editorModel)
    /\ \E l \in Languages \ {editorModel} : EditorEvent("changeLanguage", l)

\* CallHierarchyProviderRegistry.onDidChange
RegistryChangeEndsSession ==
    /\ ~disposed
    /\ \E r \in Registries \ {registry} :
          /\ registry' = r
          /\ ctxHasProvider' = HasProviderValue(editorModel, r)
    /\ lastOp' = "registryChange"
    /\ IF SessionListens
       THEN EndBody
       ELSE /\ ops' = <<>>
            /\ UNCHANGED <<sessions, items, ctxIsVisible, storage>>
    /\ UNCHANGED <<editorModel, disposed>>
    /\ UNCHANGED outside

RegistryChange ==
    /\ ~disposed
    /\ \E r \in Registries \ {registry} :
          /\ registry' = r
          /\ ctxHasProvider' = HasProviderValue(editorModel, r)
    /\ lastOp' = "registryChange"
    /\ ops' = <<>>
    /\ UNCHANGED <<editorModel, ctxIsVisible, storage, sessions, items, disposed>>
    /\ UNCHANGED outside

(***************************************************************************)
(* The peek widget.                                                        *)
(***************************************************************************)

\* Line 89: the listener is subscribed to the close event of its own widget
\* and is an item of the session store, so the close event of the widget of
\* session s reaches a listener only while that item is in the store.
CloseEventReachesAny(its, s) ==
    \E i \in 1..Len(its) : its[i].kind = "closeListener"

CloseEventReaches(its, s) ==
    \E i \in 1..Len(its) : its[i] = Item("closeListener", s)

\* Lines 89-92: the listener of the widget of session s.
CloseListener(s) ==
    LET c == Clear(sessions, items, "close")
    IN  /\ sessions' = c.ss
        /\ items' = <<>>
        /\ ctxIsVisible' = FALSE
        /\ storage' = NumberToString(sessions[s].direction)
        /\ ops' = c.ops \o <<"setVisible:false", "focus", "store">>

\* The widget's close event reaching the listener of lines 89-92.
WidgetClose ==
    \E s \in 1..Len(sessions) :
       /\ ~sessions[s].widgetDisposed
       /\ CloseEventReaches(items, s)
       /\ CloseListener(s)
       /\ lastOp' = "widgetClose"
       /\ UNCHANGED <<editorModel, registry, ctxHasProvider, disposed>>
       /\ UNCHANGED outside

\* A close event fired by the widget of a session that has ended: the
\* listener runs only if the event still reaches one.
StaleWidgetClose ==
    \E s \in 1..Len(sessions) :
       /\ sessions[s].widgetDisposed
       /\ lastOp' = "staleClose"
       /\ IF CloseEventReaches(items, s)
          THEN CloseListener(s)
          ELSE /\ ops' = <<>>
               /\ UNCHANGED <<sessions, items, ctxIsVisible, storage>>
       /\ UNCHANGED <<editorModel, registry, ctxHasProvider, disposed>>
       /\ UNCHANGED outside

\* The user switches the direction in a widget that shows a model.
ToggleDirection ==
    \E s \in 1..Len(sessions) :
       /\ ~sessions[s].widgetDisposed
       /\ sessions[s].state = "model"
       /\ sessions' = [sessions EXCEPT ![s].direction = Other(@)]
       /\ lastOp' = "toggleDirection"
       /\ ops' = <<>>
       /\ UNCHANGED <<editorModel, registry, ctxHasProvider, ctxIsVisible,
                      storage, items, disposed>>
       /\ UNCHANGED outside

(***************************************************************************)
(* The continuation of startCallHierarchy after the await (97-109):        *)
(* CallHierarchyModel.create settles for session s with outcome `out`.     *)
(***************************************************************************)

\* Line 98: cts.token.isCancellationRequested
IsCancellationRequestedIgnored(ss, s) == FALSE

IsCancellationRequested(ss, s) == ss[s].cancelled

\* Lines 103-104: the absent result.
ShowNoResultsAndEnd(ss, s) ==
    [ss EXCEPT ![s].state = "message", ![s].message = MsgNoResults,
               ![s].calls = Append(@, "showMessage"),
               ![s].widgetDisposed = TRUE, ![s].cancelled = TRUE]

ShowNoResults(ss, s) ==
    [ss EXCEPT ![s].state = "message", ![s].message = MsgNoResults,
               ![s].calls = Append(@, "showMessage")]

\* Lines 106-108: the rejection.
ShowFailedAndEnd(ss, s) ==
    [ss EXCEPT ![s].state = "message", ![s].message = MsgFailed,
               ![s].calls = Append(@, "showMessage"),
               ![s].widgetDisposed = TRUE, ![s].cancelled = TRUE]

ShowFailed(ss, s) ==
    [ss EXCEPT ![s].state = "message", ![s].message = MsgFailed,
               ![s].calls = Append(@, "showMessage")]

\* Lines 100-102: the model is added to the session store and shown.
ShowModelNotShown(ss, s) == [ss EXCEPT ![s].model = "live"]

ShowModel(ss, s) ==
    [ss EXCEPT ![s].state = "model", ![s].model = "live",
               ![s].calls = Append(@, "showModel")]

\* Lines 96, 106: the await sits in a try block whose catch takes every
\* rejection, so the promise of the async method is fulfilled either way.
PromiseAfterNoCatch(out) == IF out = "reject" THEN "rejected" ELSE "fulfilled"

PromiseAfter(out) == "fulfilled"

\* Lines 77, 102, 104, 107: the widget the continuation talks to is the
\* `widget` constant of its own invocation.
WidgetOfCurrent(ss, s) == Len(ss)

WidgetOf(ss, s) == s

Settled(ss, s, out) ==
    [ss EXCEPT ![s].pending = FALSE, ![s].outcome = out,
               ![s].lateResult = ss[s].cancelled,
               ![s].promise = PromiseAfter(out)]

Resolve ==
    \E s \in 1..Len(sessions), out \in Outcomes :
       /\ sessions[s].pending
       /\ lastOp' = "resolve"
       /\ LET ss == Settled(sessions, s, out)
          IN  IF out = "reject"
              THEN /\ sessions' = ShowFailed(ss, WidgetOf(ss, s))
                   /\ items' = items
                   /\ ops' = <<"showMessage", "console.error">>
              ELSE IF IsCancellationRequested(ss, s)
              THEN /\ sessions' = (IF out = "model"
                                   THEN [ss EXCEPT ![s].model = "dropped"]
                                   ELSE ss)
                   /\ items' = items
                   /\ ops' = <<>>
              ELSE IF out = "model"
              THEN /\ sessions' = ShowModel(ss, WidgetOf(ss, s))
                   /\ items' = Append(items, Item("model", s))
                   /\ ops' = <<"addModel", "showModel">>
              ELSE /\ sessions' = ShowNoResults(ss, WidgetOf(ss, s))
                   /\ items' = items
                   /\ ops' = <<"showMessage">>
       /\ UNCHANGED <<editorModel, registry, ctxHasProvider, ctxIsVisible,
                      storage, disposed>>
       /\ UNCHANGED outside

(***************************************************************************)
(* dispose (55-59).                                                        *)
(***************************************************************************)
DisposeController ==
    LET c == Clear(sessions, items, "dispose")
    IN  /\ ~disposed
        /\ disposed' = TRUE
        /\ ctxHasProvider' = FALSE
        /\ ctxIsVisible' = FALSE
        /\ sessions' = c.ss
        /\ items' = <<>>
        /\ storage' = StoredAfter(storage, c.ss, c.fired)
        /\ lastOp' = "dispose"
        /\ ops' = <<"resetHasProvider", "resetVisible">> \o c.ops \o FiredOps(c.fired)
        /\ UNCHANGED <<editorModel, registry>>
        /\ UNCHANGED outside

\* The user changes the setting editor.stablePeek.
ConfigChange ==
    /\ ~disposed
    /\ stablePeek' = ~stablePeek
    /\ lastOp' = "configChange"
    /\ ops' = <<>>
    /\ UNCHANGED <<editorModel, registry, ctxHasProvider, ctxIsVisible, storage,
                   sessions, items, disposed, inPeekEditor, preview>>

\* The controller's methods, commands and listeners.
Operations ==
    \/ StartCallHierarchy
    \/ ShowCallHierarchyCommand
    \/ CloseCommand
    \/ EndCallHierarchy
    \/ ChangeModel
    \/ ChangeModelLanguage
    \/ RegistryChange
    \/ WidgetClose
    \/ ToggleDirection
    \/ Resolve
    \/ DisposeController

Next ==
    \/ Operations
    \/ StaleWidgetClose

Spec == Init /\ [][Next]_vars

\* Any configuration, changing while the controller runs.  Close events of
\* ended widgets, which run no code of the controller, are left out.
InitCommands ==
    /\ InitController
    /\ stablePeek \in BOOLEAN
    /\ inPeekEditor \in BOOLEAN
    /\ preview = <<>>

NextCommands ==
    \/ Operations
    \/ ConfigChange

CommandSpec == InitCommands /\ [][NextCommands]_vars

TypeOK ==
    /\ editorModel \in EditorModels
    /\ registry \in Registries
    /\ ctxHasProvider \in BOOLEAN
    /\ ctxIsVisible \in BOOLEAN
    /\ storage \in {StorageUndefined, "1", "2"}
    /\ Len(sessions) <= MaxSessions
    /\ disposed \in BOOLEAN

(***************************************************************************)
(* Properties.                                                             *)
(***************************************************************************)
StartOps == {"startCallHierarchy", "showCommand"}
CloseTriggers == {"closeCommand", "changeModel", "changeLanguage", "widgetClose"}

Did(op) == \E i \in 1..Len(ops) : ops[i] = op
Count(op) == Cardinality({i \in 1..Len(ops) : ops[i] = op})
Last == Len(sessions)

\* C1: a controller never has two live sessions, and a startCallHierarchy that
\* creates a widget has cancelled the token and disposed the widget of every
\* earlier session before the widget is created and shown as loading.
C1_SingleLiveSession ==
    /\ Cardinality(LiveSessions) <= 1
    /\ (lastOp \in StartOps /\ Did("createWidget")) =>
          /\ \A s \in 1..(Last - 1) :
                sessions[s].cancelled /\ sessions[s].widgetDisposed
          /\ \A i, j \in 1..Len(ops) :
                (ops[i] \in {"cancel", "disposeWidget"}
                   /\ ops[j] \in {"createWidget", "showLoading"}) => i < j

C1_Witness ==
    /\ lastOp \in StartOps
    /\ Did("cancel") /\ Did("disposeWidget") /\ Did("createWidget")
    /\ Last = 2
    /\ sessions[1].endedBy = "start"
    /\ Live(2)

\* C2: a session closed by a close trigger while create was pending never gets
\* showModel and never shows a model when create later resolves with a model.
C2_NoModelAfterClose ==
    \A s \in 1..Last :
       /\ (sessions[s].cancelled /\ sessions[s].pending) =>
             sessions[s].calls = <<"showLoading">>
       /\ (sessions[s].endedBy = "close" /\ sessions[s].lateResult
              /\ sessions[s].outcome = "model") =>
             /\ \A i \in 1..Len(sessions[s].calls) : sessions[s].calls[i] # "showModel"
             /\ sessions[s].state # "model"

C2_Witness ==
    \E s \in 1..Last :
       /\ sessions[s].endedBy = "close"
       /\ sessions[s].lateResult
       /\ sessions[s].outcome = "model"
       /\ sessions[s].model = "dropped"
       /\ lastOp = "resolve"

\* C3 (as claimed): a resolution that completes after its session was cancelled
\* invokes neither showModel nor showMessage, whatever the outcome.
C3_LateResultDiscarded ==
    \A s \in 1..Last :
       sessions[s].lateResult => sessions[s].calls = <<"showLoading">>

\* C4 (as claimed): callHierarchyVisible is true exactly when the controller
\* has a live session.
C4_VisibleIffLive == ctxIsVisible <=> (LiveSessions # {})

\* C5 (as claimed): after a session ends by a close trigger, the stored
\* direction is the direction selected in that session's widget.
C5_DirectionStoredOnClose ==
    (lastOp \in CloseTriggers /\ Did("cancel")) =>
        GetNumber(storage, CallsFrom) = sessions[Last].direction

\* C6 (as claimed): a new widget is created with the stored direction, so the
\* direction of the previous session's widget at its end is the initial
\* direction of the next session.
C6_NextStartsWithPreviousDirection ==
    (lastOp \in StartOps /\ Did("createWidget")) =>
        /\ sessions[Last].direction = GetNumber(storage, CallsFrom)
        /\ Last >= 2 => sessions[Last].direction = sessions[Last - 1].direction

\* The step is a startCallHierarchy whose preconditions fail, taken from Idle.
StartRefusedFromIdle ==
    /\ lastOp' \in StartOps
    /\ ~(HasModel(editorModel) /\ RegistryHas(registry, editorModel))
    /\ LiveSessions = {}
    /\ ~ctxIsVisible

\* C7: from Idle, startCallHierarchy without a bound document or without a
\* provider for it changes nothing: no widget, both context keys stay false,
\* no provider call, and the stored direction is neither read nor written.
C7_StartWithoutProviderIsNoOp ==
    [][ StartRefusedFromIdle =>
          /\ UNCHANGED <<sessions, items, storage, editorModel, registry, disposed>>
          /\ ~ctxIsVisible'
          /\ ~ctxHasProvider /\ ~ctxHasProvider'
          /\ ops' = <<>> ]_vars

C7_Witness ==
    /\ lastOp = "startCallHierarchy"
    /\ ops = <<>>
    /\ HasModel(editorModel) /\ ~RegistryHas(registry, editorModel)
    /\ LiveSessions = {}
    /\ ~ctxIsVisible /\ ~ctxHasProvider

\* C8: a session whose create resolves with a model before any cancellation
\* gets showLoading once and then showModel once, and no showMessage.
C8_LoadingThenModelOnce ==
    \A s \in 1..Last :
       /\ sessions[s].pending => sessions[s].calls = <<"showLoading">>
       /\ (sessions[s].outcome = "model" /\ ~sessions[s].lateResult) =>
             sessions[s].calls = <<"showLoading", "showModel">>
       /\ sessions[s].state = "model" =>
             (sessions[s].outcome = "model" /\ ~sessions[s].lateResult)

C8_Witness ==
    \E s \in 1..Last :
       /\ sessions[s].outcome = "model"
       /\ ~sessions[s].lateResult
       /\ sessions[s].state = "model"
       /\ Live(s) /\ ctxIsVisible

\* The step settles create for session s, not cancelled, with outcome out.
SettlesLive(s, out) ==
    /\ sessions[s].pending
    /\ ~sessions[s].cancelled
    /\ lastOp' = "resolve"
    /\ sessions'[s].outcome = out

\* The step settles create for session s with a rejection.
Rejects(s) ==
    /\ sessions[s].pending
    /\ lastOp' = "resolve"
    /\ sessions'[s].outcome = "reject"

\* C9 (as claimed): an absent result for a session that was not cancelled ends
\* the session in Idle, with "No results" shown.
C9_AbsentEndsInIdle ==
    [][ \A s \in 1..Last : SettlesLive(s, "absent") =>
          /\ LiveSessions' = {}
          /\ ~ctxIsVisible'
          /\ sessions'[s].message = MsgNoResults ]_vars

\* C9 (amended): an absent result for a session that was not cancelled shows
\* "No results" in the session's widget and leaves the session live and
\* callHierarchyVisible true; the has-provider flag is unchanged and no error
\* is logged.
C9_AbsentShowsNoResults ==
    [][ \A s \in 1..Last : SettlesLive(s, "absent") =>
          /\ sessions'[s].calls = <<"showLoading", "showMessage">>
          /\ sessions'[s].state = "message"
          /\ sessions'[s].message = MsgNoResults
          /\ LiveSessions' = {s}
          /\ ctxIsVisible /\ ctxIsVisible'
          /\ ctxHasProvider' = ctxHasProvider
          /\ ~Did("console.error")' ]_vars

C9_Witness ==
    \E s \in 1..Last :
       /\ lastOp = "resolve"
       /\ sessions[s].outcome = "absent"
       /\ ~sessions[s].lateResult
       /\ sessions[s].message = MsgNoResults
       /\ Live(s) /\ ctxIsVisible

\* C10 (as claimed): a rejection ends the session in Idle with the generic
\* message shown and the error logged once.
C10_RejectionEndsInIdle ==
    [][ \A s \in 1..Last : Rejects(s) =>
          /\ LiveSessions' = {}
          /\ ~ctxIsVisible'
          /\ sessions'[s].message = MsgFailed
          /\ Count("console.error")' = 1 ]_vars

\* C10 (amended): a rejection hands the generic message to the session's
\* widget and logs the raw error exactly once; it ends no session: liveness
\* and callHierarchyVisible are unchanged, so a session that was not cancelled
\* stays live and visible.
C10_RejectionShowsGenericMessage ==
    [][ \A s \in 1..Last : Rejects(s) =>
          /\ sessions'[s].calls = <<"showLoading", "showMessage">>
          /\ sessions'[s].message = MsgFailed
          /\ Count("console.error")' = 1
          /\ LiveSessions' = LiveSessions
          /\ ctxIsVisible' = ctxIsVisible
          /\ ~sessions[s].cancelled => (LiveSessions' = {s} /\ ctxIsVisible') ]_vars

C10_Witness ==
    \E s \in 1..Last :
       /\ lastOp = "resolve"
       /\ sessions[s].outcome = "reject"
       /\ ~sessions[s].lateResult
       /\ sessions[s].message = MsgFailed
       /\ Count("console.error") = 1
       /\ Live(s) /\ ctxIsVisible

\* The step is a startCallHierarchy that creates a session.
StartsSession ==
    /\ lastOp' \in StartOps
    /\ Len(sessions') = Last + 1

\* C11: whatever create does, the promise of startCallHierarchy is fulfilled,
\* never rejected; and a start that follows a failed session sets up a fresh
\* session exactly as a first start does.
C11_FailureContained ==
    [][ /\ \A s \in 1..Last :
             (sessions[s].pending /\ ~sessions'[s].pending) =>
                 sessions'[s].promise = "fulfilled"
        /\ (StartsSession /\ \E s \in 1..Last : sessions[s].outcome = "reject") =>
             /\ sessions'[Last + 1] = NewSession(GetNumber(storage, CallsFrom))
             /\ items' = SessionItems(Last + 1)
             /\ LiveSessions' = {Last + 1}
             /\ ctxIsVisible'
             /\ storage' = storage ]_vars

C11_Witness ==
    /\ Last = 2
    /\ lastOp \in StartOps
    /\ sessions[1].outcome = "reject"
    /\ ~sessions[1].lateResult
    /\ sessions[1].promise = "fulfilled"
    /\ sessions[1].endedBy = "start"
    /\ Live(2)

\* C12: each close trigger (close command, document or language change, the
\* widget's close event) tears the live session down, Loading or Active: its
\* token is cancelled, its widget and its model, if any, are disposed,
\* callHierarchyVisible becomes false and editor focus is requested.
C12_CloseTriggerTearsDown ==
    [][ \A s \in 1..Last : (Live(s) /\ lastOp' \in CloseTriggers) =>
          /\ sessions'[s].cancelled
          /\ sessions'[s].widgetDisposed
          /\ sessions[s].model = "live" => sessions'[s].model = "disposed"
          /\ sessions'[s].model # "live"
          /\ items' = <<>>
          /\ ~ctxIsVisible'
          /\ Did("cancel")' /\ Did("disposeWidget")' /\ Did("focus")' ]_vars

C12_Witness ==
    /\ lastOp = "changeLanguage"
    /\ Last = 2
    /\ sessions[1].endedBy = "close" /\ sessions[1].pending
    /\ sessions[2].endedBy = "close" /\ sessions[2].model = "disposed"
    /\ Did("disposeModel") /\ Did("focus")
    /\ ~ctxIsVisible

ProviderEvents == {"changeModel", "changeLanguage", "registryChange"}

\* The has-provider flag agrees with the editor and the registry.
FlagAgrees ==
    ctxHasProvider <=> (HasModel(editorModel) /\ RegistryHas(registry, editorModel))

\* C13: right after a document, language or registry event the has-provider
\* flag equals (bound document and provider registered for it), and from then
\* on it keeps agreeing for as long as the controller exists.
C13_FlagFollowsRegistry ==
    [][ /\ lastOp' \in ProviderEvents => FlagAgrees'
        /\ (FlagAgrees /\ ~disposed') => FlagAgrees' ]_vars

C13_Witness ==
    /\ lastOp = "registryChange"
    /\ ctxHasProvider
    /\ HasModel(editorModel) /\ RegistryHas(registry, editorModel)
    /\ Last >= 1

\* C14 (as claimed): after dispose no session is live, no model is undisposed,
\* both flags are reset and a resolution that was pending at dispose time
\* shows nothing when it completes.
C14_NothingOutlivesController ==
    disposed =>
       /\ LiveSessions = {}
       /\ ~ctxIsVisible /\ ~ctxHasProvider
       /\ \A s \in 1..Last :
             /\ sessions[s].cancelled /\ sessions[s].widgetDisposed
             /\ sessions[s].model # "live"
             /\ (sessions[s].endedBy = "dispose" /\ sessions[s].lateResult) =>
                   sessions[s].calls = <<"showLoading">>

\* C15: the start command fires only where the has-provider flag is true and
\* the editor is not in a peek editor; the close command fires only where
\* callHierarchyVisible is true and editor.stablePeek is not set.
C15_CommandsUnderPrecondition ==
    [][ /\ lastOp' = "showCommand" => (ctxHasProvider /\ ~inPeekEditor)
        /\ lastOp' = "closeCommand" => (ctxIsVisible /\ ~stablePeek) ]_vars

C15_Witness ==
    /\ lastOp = "closeCommand"
    /\ Did("cancel")
    /\ ~stablePeek
    /\ ~inPeekEditor
    /\ Last = 2

\* Session s is in Loading: live, create pending, loading indicator shown.
Loading(s) ==
    /\ Live(s)
    /\ sessions[s].pending
    /\ sessions[s].state = "loading"
    /\ ctxIsVisible

\* C16: a live session whose create is pending is in Loading, and it leaves
\* Loading only when create settles or when a close trigger, a start or
\* dispose cancels it.
C16_NoTimeout ==
    [][ \A s \in 1..Last :
          /\ (Live(s) /\ sessions[s].pending) => Loading(s)
          /\ (Loading(s) /\ ~Loading(s)') =>
                lastOp' \in {"resolve", "dispose", "endCallHierarchy"} \cup CloseTriggers \cup StartOps ]_vars

C16_Witness ==
    /\ lastOp = "registryChange"
    /\ Last = 1
    /\ Loading(1)
    /\ ~RegistryHas(registry, editorModel)

(***************************************************************************)
(* The image-preview extension (extension.ts, 20-28): the webview editor   *)
(* provider registered by activate.                                        *)
(***************************************************************************)

\* Number of resolveWebviewEditor requests.
MaxRequests == 2

Resources == {"a.png", "b.png"}
WebviewEditors == {"editor1", "editor2"}

\* What previewManager.resolve hands back to its caller.
ManagerResults == {"undefined", "promise:pending", "promise:rejected"}

\* Line 26: the one call of previewManager.resolve and its arguments.
PassedToManagerSwapped(resource, editor) == << <<editor, resource>> >>

PassedToManager(resource, editor) == << <<resource, editor>> >>

\* Lines 25-27: the async method neither awaits nor returns the manager's
\* result, so its promise is fulfilled with no value.
CompletionReturned(result) == result

Completion(result) == "undefined"

ResolveWebviewEditor ==
    /\ Len(preview) < MaxRequests
    /\ \E r \in Resources, e \in WebviewEditors, res \in ManagerResults :
          preview' = Append(preview,
                            [ resource   |-> r,
                              editor     |-> e,
                              passed     |-> PassedToManager(r, e),
                              result     |-> res,
                              completion |-> Completion(res) ])
    /\ UNCHANGED <<editorModel, registry, ctxHasProvider, ctxIsVisible, storage,
                   sessions, items, disposed, lastOp, ops, stablePeek,
                   inPeekEditor>>

PreviewNext == ResolveWebviewEditor

PreviewSpec == Init /\ [][PreviewNext]_vars

C18_RefusedStartIsNoOp ==
    [][ (lastOp' \in StartOps
           /\ ~(HasModel(editorModel) /\ RegistryHas(registry, editorModel))) =>
          UNCHANGED <<sessions, items, ctxIsVisible>> ]_vars

\* What a widget shows is decided by its own session's resolution alone.
ShownBy(s) ==
    IF sessions[s].outcome = "reject" THEN <<"message", MsgFailed>>
    ELSE IF sessions[s].outcome = "none" \/ sessions[s].lateResult
         THEN <<"loading", "">>
    ELSE IF sessions[s].outcome = "model" THEN <<"model", "">>
    ELSE <<"message", MsgNoResults>>

\* C19: with two starts pending, whatever the order in which the two create
\* calls settle, each widget shows what its own session's resolution decides:
\* the first session's result never lands on the second session's widget.
C19_ResultsStayWithTheirSession ==
    \A s \in 1..Last :
       /\ <<sessions[s].state, sessions[s].message>> = ShownBy(s)
       /\ Len(sessions[s].calls) <= 2

C19_Witness ==
    /\ Last = 2
    /\ lastOp = "resolve"
    /\ ops = <<"showMessage", "console.error">>
    /\ sessions[1].outcome = "reject" /\ sessions[1].lateResult
    /\ sessions[1].endedBy = "start"
    /\ sessions[2].outcome = "model" /\ sessions[2].state = "model"
    /\ Live(2)

\* C20 (as claimed): a model that create returned is disposed once its
\* session is gone, whether it arrived before or after the cancellation.
C20_ModelsDisposedWithSession ==
    \A s \in 1..Last :
       (sessions[s].outcome = "model" /\ sessions[s].cancelled) =>
           sessions[s].model = "disposed"

\* Handlers that clear the session store without being the close listener.
TeardownOps ==
    StartOps \cup {"closeCommand", "endCallHierarchy", "changeModel",
                   "changeLanguage", "dispose"}

\* C21: a close event from the widget of an ended or superseded session
\* changes nothing in the controller: no teardown of the current session, no
\* write of callHierarchyVisible, no focus request, no write of the stored
\* direction; and the close event a widget fires while a teardown disposes it
\* runs no listener, so a teardown stores nothing and acts once.
C21_StaleCloseHasNoEffect ==
    [][ /\ lastOp' = "staleClose" =>
             /\ UNCHANGED <<sessions, items, ctxIsVisible, ctxHasProvider,
                            storage, editorModel, registry, disposed>>
             /\ ops' = <<>>
        /\ lastOp' \in TeardownOps =>
             /\ ~Did("store")'
             /\ storage' = storage
             /\ Count("focus")' <= 1
             /\ Count("setVisible:false")' <= 1
        /\ lastOp' \in StartOps =>
             (~Did("focus")' /\ ~Did("setVisible:false")')
        /\ lastOp' = "widgetClose" =>
             (Count("store")' = 1 /\ Count("focus")' = 1) ]_vars

C21_Witness ==
    /\ lastOp = "staleClose"
    /\ Last = 2
    /\ sessions[1].endedBy = "start"
    /\ sessions[1].direction # GetNumber(storage, CallsFrom)
    /\ Live(2) /\ sessions[2].state = "model"
    /\ ctxIsVisible

\* C22: in Idle a document or language change does not run endCallHierarchy:
\* no focus request and no write of callHierarchyVisible; the has-provider
\* flag is recomputed and nothing else of the controller changes.
C22_IdleEventOnlyUpdatesFlag ==
    [][ (LiveSessions = {} /\ lastOp' \in {"changeModel", "changeLanguage"}) =>
          /\ ops' = <<>>
          /\ UNCHANGED <<sessions, items, ctxIsVisible, storage, registry, disposed>>
          /\ ctxHasProvider' =
                (HasModel(editorModel') /\ RegistryHas(registry, editorModel')) ]_vars

C22_Witness ==
    /\ lastOp = "changeLanguage"
    /\ ops = <<>>
    /\ Last = 1
    /\ sessions[1].endedBy = "start"
    /\ LiveSessions = {}
    /\ ctxIsVisible
    /\ ctxHasProvider

\* C23: endCallHierarchy always ends with no live session and with
\* callHierarchyVisible false, cancels only the token of the live session,
\* and never writes the stored direction; with no live session it cancels
\* and disposes nothing, and invoked right after itself it changes nothing.
C23_EndIsIdempotent ==
    [][ lastOp' = "endCallHierarchy" =>
          /\ LiveSessions' = {}
          /\ items' = <<>>
          /\ ~ctxIsVisible'
          /\ storage' = storage
          /\ ~Did("store")'
          /\ \A s \in 1..Last :
                (sessions'[s].cancelled /\ ~sessions[s].cancelled) => Live(s)
          /\ Count("cancel")' = Cardinality(LiveSessions)
          /\ LiveSessions = {} =>
                /\ sessions' = sessions
                /\ ops' = <<"setVisible:false", "focus">>
          /\ lastOp = "endCallHierarchy" =>
                UNCHANGED <<sessions, items, ctxIsVisible, ctxHasProvider,
                            storage, editorModel, registry, disposed>> ]_vars

C23_Witness ==
    /\ lastOp = "endCallHierarchy"
    /\ ops = <<"setVisible:false", "focus">>
    /\ Last = 1
    /\ sessions[1].endedBy = "close"
    /\ sessions[1].direction # GetNumber(storage, CallsFrom)
    /\ sessions[1].model = "disposed"
    /\ ~ctxIsVisible

====
